---------------------------- MODULE Spec2Model ----------------------------
(***************************************************************************)
(* Model of c3sdb/build_utils/clean_src.py: the CCS reconciliation policy  *)
(* (calculate_rsd, remove_outliers_and_average, process_entries) and the   *)
(* cleaning pipeline (create_clean_db, clean_database).                    *)
(*                                                                         *)
(* Numbers.  A CCS value is held as an integer number of ten-thousandths   *)
(* (E4 per unit), so that round(x, 4) is a real operation on the exact     *)
(* rational sum/n.  Every measured CCS value of the model lies on a grid   *)
(* of 0.05 (Grid ten-thousandths); the statistics of the code are          *)
(* homogeneous in the values, so they are evaluated in grid units, which   *)
(* keeps the squares inside TLC's 32-bit integers and gives the same       *)
(* verdicts.  An mz value is an integer number of tenths.                  *)
(***************************************************************************)
EXTENDS Integers, Sequences, FiniteSets, TLC

VARIABLES
    pc,          \* position of the run
    src,         \* rows of the source store's master table (read order)
    dest,        \* the store at clean_db_path
    open,        \* connections opened and not yet closed
    data,        \* rows fetched from the source (cursor.fetchall())
    grouped,     \* insertion-ordered mapping key -> entries, as a sequence
    gi,          \* number of groups already handled by the insert loop
    error,       \* exception that ended the run, "none" otherwise
    srcRead,     \* whether the SELECT on the source has been executed
    destBefore,  \* the store at clean_db_path when the run started
    entries,     \* the group handed to process_entries (policy runs)
    reconciled,  \* what remove_outliers_and_average returned on line 114
    result,      \* what process_entries returned or raised for entries
    stored       \* rows the insert loop writes for entries

vars == <<pc, src, dest, open, data, grouped, gi, error, srcRead,
          destBefore, entries, reconciled, result, stored>>

-----------------------------------------------------------------------------
(* Bounds *)

MaxGroup == 5
MaxRows == 3
MaxKeyRows == 2

-----------------------------------------------------------------------------
(* Numbers *)

E4 == 10000

Grid == E4 \div 20

Abs(x) == IF x < 0 THEN -x ELSE x

RECURSIVE SumSeq(_)
SumSeq(s) == IF s = <<>> THEN 0 ELSE Head(s) + SumSeq(Tail(s))

Ticks(values) == [i \in 1..Len(values) |-> values[i] \div Grid]

Squares(s) == [i \in 1..Len(s) |-> s[i] * s[i]]

\* n^2 times the population variance of s: n * sum(x^2) - sum(x)^2
Dev2(s) == Len(s) * SumSeq(Squares(s)) - SumSeq(s) * SumSeq(s)

\* round half to even of the rational num/den (den > 0, num >= 0)
RoundHalfEven(num, den) ==
    LET q == num \div den
        r == num % den
    IN  IF 2 * r < den THEN q
        ELSE IF 2 * r > den THEN q + 1
        ELSE IF q % 2 = 0 THEN q ELSE q + 1

\* round(x, 2) in place of round(x, 4)
Round4_TwoDecimals(sum, n) == 100 * RoundHalfEven(sum, 100 * n)

\* round(x, 4) for x = sum/n ten-thousandths: the nearest ten-thousandth
Round4(sum, n) == RoundHalfEven(sum, n)

\* int(mz) in place of round(mz, 0)
Round0_Truncate(mz) == mz \div 10

\* round(mz, 0) for mz in tenths: the nearest integer
Round0(mz) == RoundHalfEven(mz, 10)

-----------------------------------------------------------------------------
(* calculate_rsd: np.std(values) / np.mean(values) * 100.                  *)
(* The value is 100 * sqrt(dev2) / sum in grid units; it is kept as the    *)
(* pair (dev2, sum).  A zero mean gives nan or inf (a warning, no error).  *)

calculate_rsd(values) ==
    [dev2 |-> Dev2(Ticks(values)), sum |-> SumSeq(Ticks(values))]

\* rsd < 1: false for nan and inf, true for a negative quotient,
\* and otherwise 100 * sqrt(dev2) < sum, i.e. 10000 * dev2 < sum^2
RsdBelow1(rsd) ==
    IF rsd.sum = 0 THEN FALSE
    ELSE IF rsd.sum < 0 THEN TRUE
    ELSE rsd.dev2 <= (rsd.sum * rsd.sum - 1) \div 10000

-----------------------------------------------------------------------------
(* remove_outliers_and_average *)

None == [kind |-> "None"]
Float(sum, n) == [kind |-> "float", sum |-> sum, n |-> n]
List(values) == [kind |-> "list", values |-> values]

\* lines 52-55: the values with abs(v - mean_val) <= std_dev, i.e. with
\* (n*v - sum)^2 <= n*sum(x^2) - sum^2
Filtered(values) ==
    LET t == Ticks(values)
        n == Len(t)
        sum == SumSeq(t)
        dev2 == Dev2(t)
        WithinOneStd(v) ==
            (n * (v \div Grid) - sum) * (n * (v \div Grid) - sum) <= dev2
    IN  SelectSeq(values, WithinOneStd)

Mean(values) == Float(SumSeq(values), Len(values))

\* the reconciler without lines 62-63: the mean only below 1%, the
\* original values otherwise
remove_outliers_until_converged(values) ==
    IF Len(values) > 2
    THEN IF Len(Filtered(values)) = Len(values) THEN None
         ELSE IF RsdBelow1(calculate_rsd(Filtered(values)))
         THEN Mean(Filtered(values))
         ELSE List(values)
    ELSE None

\* Every path through the body of the while loop leaves the function or
\* the loop, so the body runs at most once; falling out of the loop (the
\* break, or two or fewer values) reaches the end of the function, which
\* returns None.
remove_outliers_and_average(values) ==
    LET original_values == values
    IN  IF Len(values) > 2
        THEN LET filtered_values == Filtered(values)
             IN  IF Len(filtered_values) = Len(values)
                 THEN None
                 ELSE IF RsdBelow1(calculate_rsd(filtered_values))
                 THEN Mean(filtered_values)
                 ELSE IF Len(filtered_values) # Len(original_values)
                 THEN Mean(filtered_values)
                 ELSE List(original_values)
        ELSE None

-----------------------------------------------------------------------------
(* process_entries *)

Returned(values) == [raised |-> FALSE, value |-> values]
Raised(exc) == [raised |-> TRUE, exc |-> exc]

Repeat(v, n) == [i \in 1..n |-> v]

CcsOf(es) == [i \in 1..Len(es) |-> es[i].ccs]

DtEntries(es) == SelectSeq(es, LAMBDA e : e.ccs_type = "DT")

RoundedMean(ccs_values) == Round4(SumSeq(ccs_values), Len(ccs_values))

\* the first entry's value in place of the DT entry's
KeepFirst(es) == Repeat(es[1].ccs, Len(es))

\* lines 98-101: exactly one DT entry, keep only the DT measurement
KeepDt(es) == Repeat(DtEntries(es)[1].ccs, Len(es))

\* lines 114-120: round(None, 4) raises TypeError
AfterOutliers(new_values, n) ==
    IF new_values.kind = "list" THEN Returned(new_values.values)
    ELSE IF new_values.kind = "float"
    THEN Returned(Repeat(Round4(new_values.sum, new_values.n), n))
    ELSE Raised("TypeError")

\* the branch of lines 112-114: not two entries and rsd not below 1
CallsReconciler(es) ==
    Len(es) # 2 /\ ~RsdBelow1(calculate_rsd(CcsOf(es)))

process_entries(es) ==
    LET ccs_values == CcsOf(es)
        rsd == calculate_rsd(ccs_values)
        dt_entries == DtEntries(es)
    IN  IF Len(ccs_values) = 2
        THEN IF RsdBelow1(rsd)
             THEN Returned(Repeat(RoundedMean(ccs_values), Len(es)))
             ELSE IF Len(dt_entries) = 1 THEN Returned(KeepDt(es))
             ELSE IF Len(dt_entries) = 2 THEN Returned(ccs_values)
             ELSE Returned(ccs_values)
        ELSE IF RsdBelow1(rsd)
             THEN Returned(Repeat(RoundedMean(ccs_values), Len(es)))
             ELSE AfterOutliers(remove_outliers_and_average(ccs_values), Len(es))

-----------------------------------------------------------------------------
(* Rows of the master table: the twelve columns of the SELECT (line 169).  *)
(* A name is a sequence of characters, so that str.lower() is computed.    *)

UpperCase == <<"A","B","C","D","E","F","G","H","I","J","K","L","M",
               "N","O","P","Q","R","S","T","U","V","W","X","Y","Z">>
LowerCase == <<"a","b","c","d","e","f","g","h","i","j","k","l","m",
               "n","o","p","q","r","s","t","u","v","w","x","y","z">>

LowerChar(c) ==
    IF \E i \in 1..Len(UpperCase) : UpperCase[i] = c
    THEN LowerCase[CHOOSE i \in 1..Len(UpperCase) : UpperCase[i] = c]
    ELSE c

\* str.lower()
Lower(name) == [i \in 1..Len(name) |-> LowerChar(name[i])]

Caffeine == <<"C","a","f","f","e","i","n","e">>
caffeine == <<"c","a","f","f","e","i","n","e">>

MakeRow(g_id, name, adduct, mz, ccs, ccs_type) ==
    [g_id |-> g_id, name |-> name, adduct |-> adduct, mass |-> 1942,
     z |-> 1, mz |-> mz, ccs |-> ccs, smi |-> "CN1C=NC2=C1C(=O)N(C(=O)N2C)C",
     chem_class_label |-> "small molecule", src_tag |-> "zhou1016",
     ccs_type |-> ccs_type, ccs_method |-> "single field"]

-----------------------------------------------------------------------------
(* Grouping, lines 172-201 *)

\* lines 175-182
KeyOf(entry) ==
    [name |-> Lower(entry.name), adduct |-> entry.adduct,
     mz |-> Round0(entry.mz)]

HasKey(g, key) == \E i \in 1..Len(g) : g[i].key = key

IndexOfKey(g, key) == CHOOSE i \in 1..Len(g) : g[i].key = key

\* lines 184-201: a new key is appended to the mapping with an empty list,
\* then the entry is appended to its key's list
AddEntry(g, entry) ==
    LET key == KeyOf(entry)
        g1 == IF HasKey(g, key) THEN g
              ELSE Append(g, [key |-> key, entries |-> <<>>])
        i == IndexOfKey(g1, key)
    IN  [g1 EXCEPT ![i].entries = Append(@, entry)]

RECURSIVE GroupInto(_, _)
GroupInto(g, rows) ==
    IF rows = <<>> THEN g
    ELSE GroupInto(AddEntry(g, Head(rows)), Tail(rows))

GroupAll(rows) == GroupInto(<<>>, rows)

-----------------------------------------------------------------------------
(* The insert loop of one group, lines 207-229 *)

\* the normalized name written in place of the stored one
InsertedRow_NormalizedName(entry, ccs_value) ==
    [entry EXCEPT !.ccs = ccs_value, !.name = Lower(entry.name)]

\* lines 213-226: the tuple bound to the INSERT
InsertedRow(entry, ccs_value) == [entry EXCEPT !.ccs = ccs_value]

Range(s) == {s[i] : i \in 1..Len(s)}

\* zip(entries, processed_ccs) against the shrinking set unique_ccs
RECURSIVE InsertLoop(_, _, _)
InsertLoop(es, processed_ccs, unique_ccs) ==
    IF es = <<>> \/ processed_ccs = <<>> THEN <<>>
    ELSE IF Head(processed_ccs) \in unique_ccs
    THEN <<InsertedRow(Head(es), Head(processed_ccs))>>
         \o InsertLoop(Tail(es), Tail(processed_ccs),
                       unique_ccs \ {Head(processed_ccs)})
    ELSE InsertLoop(Tail(es), Tail(processed_ccs), unique_ccs)

\* one row per entry, without lines 210 and 229
RowsToInsert_EveryEntry(es, processed_ccs) ==
    [i \in 1..Len(es) |-> [es[i] EXCEPT !.ccs = processed_ccs[i]]]

RowsToInsert(es, processed_ccs) ==
    InsertLoop(es, processed_ccs, Range(processed_ccs))

-----------------------------------------------------------------------------
(* The stores *)

Scripts == <<"C3SDB_schema.sqlite3", "mqn_schema.sqlite3",
             "pred_CCS_schema.sqlite3">>

NoFile == [exists |-> FALSE, schema |-> <<>>, rows |-> <<>>,
           committed |-> TRUE]

\* a destination left by an earlier, completed run
OldRow == MakeRow(900, Caffeine, "[M+H]+", 1954, 100 * E4, "DT")
OldStore == [exists |-> TRUE, schema |-> Scripts, rows |-> <<OldRow>>,
             committed |-> TRUE]

NotRun == [raised |-> FALSE, value |-> <<>>]
NotCalled == [kind |-> "not called"]

SeqsUpTo(S, n) == UNION {[1..k -> S] : k \in 0..n}

Numbered(rows) == [i \in 1..Len(rows) |-> [rows[i] EXCEPT !.g_id = i]]

-----------------------------------------------------------------------------
(* Initial states *)

Idle ==
    /\ open = {}
    /\ data = <<>>
    /\ grouped = <<>>
    /\ gi = 0
    /\ error = "none"
    /\ srcRead = FALSE
    /\ destBefore = dest
    /\ reconciled = NotCalled
    /\ result = NotRun
    /\ stored = <<>>

\* pipeline runs: one analyte, two mz bins, CCS 0.0, 100.0 and 100.05
RowDomain ==
    {MakeRow(0, Caffeine, "[M+H]+", mz, ccs, t) :
        mz \in {1944, 1954}, ccs \in {0, 100 * E4, 100 * E4 + Grid},
        t \in {"DT", "TW"}}

Init ==
    /\ pc = "start"
    /\ src \in {Numbered(r) : r \in SeqsUpTo(RowDomain, MaxRows)}
    /\ dest \in {NoFile, OldStore}
    /\ entries = <<>>
    /\ Idle

\* pipeline runs that vary the three parts of the grouping key
KeyRowDomain ==
    {MakeRow(0, n, a, mz, ccs, "DT") :
        n \in {Caffeine, caffeine}, a \in {"[M+H]+", "[M+Na]+"},
        mz \in {1944, 1946, 1954, 1956}, ccs \in {0, 100 * E4}}

InitKey ==
    /\ pc = "start"
    /\ src \in {Numbered(r) : r \in SeqsUpTo(KeyRowDomain, MaxKeyRows)}
    /\ dest = NoFile
    /\ entries = <<>>
    /\ Idle

\* policy runs: one group handed to process_entries
PolicyCcs == {100 * E4, 100 * E4 + Grid, 150 * E4, 200 * E4}

Group(ccs, t) ==
    [i \in 1..Len(ccs) |-> MakeRow(i, Caffeine, "[M+H]+", 1954, ccs[i], t[i])]

InitPolicy ==
    /\ pc = "policy"
    /\ src = <<>>
    /\ dest = NoFile
    /\ \E k \in 1..MaxGroup :
         \E ccs \in [1..k -> PolicyCcs], t \in [1..k -> {"DT", "TW"}] :
           entries = Group(ccs, t)
    /\ Idle

\* policy runs on a group of exactly two entries
PairCcs == PolicyCcs \cup {120 * E4, 140 * E4, 160 * E4}

InitPair ==
    /\ pc = "policy"
    /\ src = <<>>
    /\ dest = NoFile
    /\ \E ccs \in [1..2 -> PairCcs], t \in [1..2 -> {"DT", "TW"}] :
         entries = Group(ccs, t)
    /\ Idle

-----------------------------------------------------------------------------
(* create_clean_db, lines 134-148 *)

\* every script exists: the old file is removed, the store is recreated,
\* the three scripts are executed, the connection is committed and closed
CreateCleanDb ==
    /\ pc = "start"
    /\ dest' = [exists |-> TRUE, schema |-> Scripts, rows |-> <<>>,
                committed |-> TRUE]
    /\ pc' = "created"
    /\ UNCHANGED <<src, open, data, grouped, gi, error, srcRead,
                   destBefore, entries, reconciled, result, stored>>

\* script k is the first that does not exist: open() raises after
\* os.remove, sqlite3.connect and the scripts before k; lines 147-148
\* are not reached
CreateCleanDbMissingArtifact ==
    /\ pc = "start"
    /\ \E k \in 1..Len(Scripts) :
         dest' = [exists |-> TRUE, schema |-> SubSeq(Scripts, 1, k - 1),
                  rows |-> <<>>, committed |-> TRUE]
    /\ open' = open \cup {"con"}
    /\ error' = "FileNotFoundError"
    /\ pc' = "aborted"
    /\ UNCHANGED <<src, data, grouped, gi, srcRead, destBefore, entries,
                   reconciled, result, stored>>

-----------------------------------------------------------------------------
(* clean_database, lines 165-233 *)

\* lines 166-171
ReadSource ==
    /\ pc = "created"
    /\ open' = open \cup {"conn"}
    /\ data' = src
    /\ srcRead' = TRUE
    /\ pc' = "fetched"
    /\ UNCHANGED <<src, dest, grouped, gi, error, destBefore, entries,
                   reconciled, result, stored>>

\* lines 166-170: the SELECT raises (no master table in the source)
SourceAccessError ==
    /\ pc = "created"
    /\ open' = open \cup {"conn"}
    /\ error' = "OperationalError"
    /\ pc' = "aborted"
    /\ UNCHANGED <<src, dest, data, grouped, gi, srcRead, destBefore, entries,
                   reconciled, result, stored>>

\* lines 172-203
GroupData ==
    /\ pc = "fetched"
    /\ grouped' = GroupAll(data)
    /\ open' = open \cup {"clean_conn"}
    /\ gi' = 0
    /\ pc' = "grouped"
    /\ UNCHANGED <<src, dest, data, error, srcRead, destBefore, entries,
                   reconciled, result, stored>>

\* lines 204-229, one iteration of the loop over the groups
ProcessGroup ==
    /\ pc = "grouped"
    /\ gi < Len(grouped)
    /\ LET es == grouped[gi + 1].entries
           processed_ccs == process_entries(es)
       IN  /\ ~processed_ccs.raised
           /\ LET ins == RowsToInsert(es, processed_ccs.value)
              IN  dest' = [dest EXCEPT !.rows = @ \o ins,
                                       !.committed = (ins = <<>>) /\ @]
    /\ gi' = gi + 1
    /\ UNCHANGED <<pc, src, open, data, grouped, error, srcRead, destBefore, entries,
                   reconciled, result, stored>>

\* line 206 raises
ProcessGroupPolicyError ==
    /\ pc = "grouped"
    /\ gi < Len(grouped)
    /\ LET processed_ccs == process_entries(grouped[gi + 1].entries)
       IN  /\ processed_ccs.raised
           /\ error' = processed_ccs.exc
    /\ pc' = "aborted"
    /\ UNCHANGED <<src, dest, open, data, grouped, gi, srcRead, destBefore, entries,
                   reconciled, result, stored>>

\* line 211 raises on the k-th INSERT of the group
ProcessGroupWriteError ==
    /\ pc = "grouped"
    /\ gi < Len(grouped)
    /\ LET es == grouped[gi + 1].entries
           processed_ccs == process_entries(es)
       IN  /\ ~processed_ccs.raised
           /\ LET ins == RowsToInsert(es, processed_ccs.value)
              IN  \E k \in 1..Len(ins) :
                    dest' = [dest EXCEPT !.rows = @ \o SubSeq(ins, 1, k - 1),
                                         !.committed = (k = 1) /\ @]
    /\ error' = "IntegrityError"
    /\ pc' = "aborted"
    /\ UNCHANGED <<src, open, data, grouped, gi, srcRead, destBefore, entries,
                   reconciled, result, stored>>

\* lines 230-233
Finish ==
    /\ pc = "grouped"
    /\ gi = Len(grouped)
    /\ dest' = [dest EXCEPT !.committed = TRUE]
    /\ open' = open \ {"clean_conn", "conn"}
    /\ pc' = "done"
    /\ UNCHANGED <<src, data, grouped, gi, error, srcRead, destBefore, entries,
                   reconciled, result, stored>>

\* process_entries on one group, followed by the insert loop on its result
ApplyPolicy ==
    /\ pc = "policy"
    /\ reconciled' = IF CallsReconciler(entries)
                     THEN remove_outliers_and_average(CcsOf(entries))
                     ELSE NotCalled
    /\ result' = process_entries(entries)
    /\ stored' = IF result'.raised THEN <<>>
                 ELSE RowsToInsert(entries, result'.value)
    /\ pc' = "policy_done"
    /\ UNCHANGED <<src, dest, open, data, grouped, gi, error, srcRead,
                   destBefore, entries>>

Next ==
    \/ CreateCleanDb
    \/ CreateCleanDbMissingArtifact
    \/ ReadSource
    \/ SourceAccessError
    \/ GroupData
    \/ ProcessGroup
    \/ ProcessGroupPolicyError
    \/ ProcessGroupWriteError
    \/ Finish

NextPolicy == ApplyPolicy

Spec == Init /\ [][Next]_vars

SpecKey == InitKey /\ [][Next]_vars

SpecPolicy == InitPolicy /\ [][NextPolicy]_vars

SpecPair == InitPair /\ [][NextPolicy]_vars

-----------------------------------------------------------------------------
(* Properties *)

PolicyDone == pc = "policy_done"

ccs_values == CcsOf(entries)

StoredCcs == [i \in 1..Len(stored) |-> stored[i].ccs]

\* C1: for every non-empty group, process_entries does not fail and
\* returns a sequence with one CCS value per entry.
C1_ReturnsOneValuePerEntry ==
    PolicyDone =>
        /\ ~result.raised
        /\ Len(result.value) = Len(entries)

\* C4 as stated: for the two entries [100.0, 100.05] process_entries
\* returns [100.03, 100.03] and one record is stored.
C4_MeanIs100_03 ==
    PolicyDone /\ ccs_values = <<1000000, 1000500>> =>
        /\ result = Returned(<<1000300, 1000300>>)
        /\ Len(stored) = 1

\* C4 amended: for the two entries [100.0, 100.05] process_entries
\* returns the mean rounded to 4 decimals, 100.025, for both entries, and
\* one record, carrying 100.025, is stored.
C4_MeanIs100_025 ==
    PolicyDone /\ ccs_values = <<1000000, 1000500>> =>
        /\ result = Returned(<<1000250, 1000250>>)
        /\ StoredCcs = <<1000250>>

C4_Witness ==
    PolicyDone /\ ccs_values = <<1000000, 1000500>> /\ ~result.raised

\* the CCS value of the only DT entry of a group of two
OnlyDtCcs ==
    IF entries[1].ccs_type = "DT" THEN entries[1].ccs ELSE entries[2].ccs

ExactlyOneDt ==
    (entries[1].ccs_type = "DT") # (entries[2].ccs_type = "DT")

\* C5: for two entries with dispersion at least 1% of which exactly one is
\* DT, process_entries returns the DT entry's CCS value, unrounded, at
\* both positions, and exactly one record, with that value, is stored.
C5_OneDtWins ==
    (/\ PolicyDone
     /\ Len(entries) = 2
     /\ ~RsdBelow1(calculate_rsd(ccs_values))
     /\ ExactlyOneDt) =>
        /\ result = Returned(<<OnlyDtCcs, OnlyDtCcs>>)
        /\ StoredCcs = <<OnlyDtCcs>>

\* the DT entry is the second one, DT 150.0 after non-DT 160.0
C5_Witness ==
    /\ PolicyDone
    /\ ccs_values = <<1600000, 1500000>>
    /\ entries[1].ccs_type = "TW"
    /\ entries[2].ccs_type = "DT"
    /\ StoredCcs = <<1500000>>

Retained == Filtered(ccs_values)

C9_NothingRemovedReturnsOriginal ==
    (/\ PolicyDone
     /\ reconciled # NotCalled
     /\ Len(entries) > 2
     /\ Len(Retained) = Len(entries)) =>
        reconciled = List(ccs_values)

-----------------------------------------------------------------------------
(* Properties of the pipeline *)

Ended == pc \in {"done", "aborted"}

\* C7: in every execution, aborted ones included, every connection that
\* was opened is closed when the pipeline ends.
C7_ConnectionsClosedAtEnd == Ended => open = {}

\* C8: when a schema script is missing the source has not been read, no
\* row has been inserted, and a destination that existed before the run is
\* still there with its previous contents.
C8_MissingScriptTouchesNothing ==
    pc = "aborted" /\ error = "FileNotFoundError" =>
        /\ ~srcRead
        /\ data = <<>>
        /\ destBefore.exists => dest = destBefore

GIds(rows) == {rows[i].g_id : i \in 1..Len(rows)}

RowsOf(g) == SelectSeq(dest.rows, LAMBDA r : r.g_id \in GIds(grouped[g].entries))

FirstWithValue(out, i) == \A j \in 1..(i - 1) : out[j] # out[i]

\* C2: for every group handled by the insert loop, the rows inserted are
\* one per distinct value of the policy's output: entry i is inserted,
\* with its output value, exactly when no earlier entry of the group was
\* mapped to the same value.
C2_SuppressionByValue ==
    pc \in {"grouped", "done"} =>
        \A g \in 1..gi :
            LET es == grouped[g].entries
                out == process_entries(es).value
            IN  /\ Len(RowsOf(g)) = Cardinality(Range(out))
                /\ \A i \in 1..Len(es) :
                     /\ FirstWithValue(out, i) =>
                          Cardinality({k \in 1..Len(dest.rows) :
                              /\ dest.rows[k].g_id = es[i].g_id
                              /\ dest.rows[k].ccs = out[i]}) = 1
                     /\ ~FirstWithValue(out, i) =>
                          es[i].g_id \notin GIds(dest.rows)

\* two handled groups; the second entry of the first one repeated the
\* value already emitted and was not inserted
C2_Witness ==
    /\ pc = "grouped"
    /\ gi = 2
    /\ Len(grouped[1].entries) = 2
    /\ Len(RowsOf(1)) = 1
    /\ RowsOf(1)[1].g_id = grouped[1].entries[1].g_id
    /\ Len(RowsOf(2)) = 1

\* the integer nearest to an mz given in tenths (no value of the model
\* lies half way between two integers)
NearestInteger(mz) == CHOOSE k \in 0..(mz \div 10 + 1) : Abs(10 * k - mz) < 5

SameGroup(i, j) ==
    \E g \in 1..Len(grouped) :
        {data[i].g_id, data[j].g_id} \subseteq GIds(grouped[g].entries)

CaffeinePair(i, j) ==
    /\ data[i].name = Caffeine
    /\ data[j].name = caffeine
    /\ data[i].adduct = data[j].adduct

\* C3 as stated: "Caffeine" and "caffeine" with the same adduct and mz
\* 195.4 and 195.6 are in the same group, and mz 194.4 is in another one.
C3_Mz195_6GroupsWith195_4 ==
    pc = "grouped" =>
        \A i, j \in 1..Len(data) :
            CaffeinePair(i, j) =>
                /\ data[i].mz = 1954 /\ data[j].mz = 1956 => SameGroup(i, j)
                /\ data[i].mz = 1954 /\ data[j].mz = 1944 => ~SameGroup(i, j)

\* C3 amended: two records are in the same group exactly when their
\* lower-cased names, their adducts and their mz rounded to the nearest
\* integer agree; "Caffeine" and "caffeine" with the same adduct are in
\* the same group for mz 195.4 and 194.6 (both round to 195) and in
\* different groups for mz 195.4 and 195.6 (196) or 194.4 (194).
C3_KeyIsNearestInteger ==
    pc = "grouped" =>
        /\ \A i \in 1..Len(data) : SameGroup(i, i)
        /\ \A i \in 1..Len(data) : \A j \in (i + 1)..Len(data) :
             SameGroup(i, j) <=>
                 /\ data[i].adduct = data[j].adduct
                 /\ NearestInteger(data[i].mz) = NearestInteger(data[j].mz)
                 /\ Lower(data[i].name) = Lower(data[j].name)
        /\ \A i, j \in 1..Len(data) :
             CaffeinePair(i, j) =>
                 /\ data[i].mz = 1954 /\ data[j].mz = 1946 => SameGroup(i, j)
                 /\ data[i].mz = 1954 /\ data[j].mz = 1956 => ~SameGroup(i, j)
                 /\ data[i].mz = 1954 /\ data[j].mz = 1944 => ~SameGroup(i, j)

C3_Witness ==
    /\ pc = "grouped"
    /\ Len(data) = 2
    /\ CaffeinePair(1, 2)
    /\ data[1].mz = 1954
    /\ data[2].mz = 1946
    /\ Len(grouped) = 1
    /\ Len(grouped[1].entries) = 2

SameButCcs(r, s) == [r EXCEPT !.ccs = s.ccs] = s

IndependentKey(r) ==
    <<Lower(r.name), r.adduct, NearestInteger(r.mz)>>

\* C10: after a completed run every destination row is one source row
\* with only the ccs column possibly changed, no source row is written
\* twice, and every group of source rows has at least one row.
C10_DestinationIsImageOfSource ==
    pc = "done" =>
        /\ \A k \in 1..Len(dest.rows) :
             Cardinality({i \in 1..Len(src) :
                 SameButCcs(dest.rows[k], src[i])}) = 1
        /\ \A k, l \in 1..Len(dest.rows) :
             dest.rows[k].g_id = dest.rows[l].g_id => k = l
        /\ \A i \in 1..Len(src) :
             \E k \in 1..Len(dest.rows) :
                 IndependentKey(dest.rows[k]) = IndependentKey(src[i])

\* a completed run of two groups that dropped a row and changed a ccs
C10_Witness ==
    /\ pc = "done"
    /\ Len(src) = 3
    /\ Len(dest.rows) = 2
    /\ Len(grouped) = 2
    /\ \E k \in 1..Len(dest.rows) : dest.rows[k].ccs \notin Range(CcsOf(src))

=============================================================================
